---- MODULE Spec2Model ----
(***************************************************************************)
(* Batch PII masking: the job submitter (batch/src/processor.py), the job  *)
(* reconciler (batch/src/monitor.py), the DynamoDB job table, the Bedrock  *)
(* batch backend and the output bucket.                                    *)
(*                                                                         *)
(* Every handler invocation is a process.  A step of a process is one call *)
(* to an external service (Bedrock, DynamoDB, S3) together with the local  *)
(* code that precedes the next call; each call either succeeds or raises.  *)
(***************************************************************************)
EXTENDS Integers, FiniteSets, Sequences, TLC

(* ---- bounds ---- *)
MaxSubs == 2            \* submitter invocations
MaxPasses == 2          \* reconciler invocations
MaxClock == 1           \* datetime.now() runs over the seconds 0..MaxClock
MaxStored == 2          \* records that a pass finds in a table it did not fill
MaxRows == 3            \* rows of the CSV that the realtime handler reads
MaxChunks == 4          \* pieces of a text that the fallback redaction rewrites

Subs == 1..MaxSubs
Mons == 1..MaxPasses

(* ---- program constants ---- *)
TTL_SECONDS == 2592000  \* 30 * 24 * 60 * 60

INPUT_BUCKET == "input-bucket"
OUTPUT_BUCKET == "output-bucket"
DEFAULT_KEY == "sample_pii_data.csv"

TerminalStatuses_All == {"Completed", "Failed", "Stopped", "InProgress"}

\* monitor.py line 56
TerminalStatuses == {"Completed", "Failed", "Stopped"}

VARIABLES
    clock,      \* datetime.now(), in seconds
    table,      \* DynamoDB table: jobId -> item (a function attribute -> value)
    jobs,       \* Bedrock batch jobs: jobArn -> job description
    objects,    \* keys of the objects written to the output bucket
    sub,        \* processor.handler invocations: locals and position
    mon,        \* monitor.handler invocations: locals and position
    rt,         \* genai-pii-mask.lambda_handler invocation: locals and position
    rx          \* the text that the fallback redaction of processor.py rewrites

vars == <<clock, table, jobs, objects, sub, mon, rt, rx>>

(* ---- values ---- *)
NoJobId == <<>>
NoArn == <<>>
NoKey == ""
NoError == "none"
NoResp == [statusCode |-> 0]
NoItem == [jobId |-> NoJobId]
NoJobResponse == [status |-> "none"]

\* S3 notifications, manual invocations with and without a key, and an
\* event whose first record carries no 's3' entry
Keys == {"notes.txt"}
Events ==
    [kind : {"s3", "manual"}, key : Keys] \cup
    {[kind |-> "manual_nokey"], [kind |-> "malformed"]}

\* f"pii-job-{int(datetime.now().timestamp())}"
JobIdAt(t) == <<"pii-job", t>>

\* the pieces of a key that the handlers look at: stem and extension
KeyTokens(key) ==
    CASE key = "notes.txt" -> <<"notes", ".txt">>
      [] key = "sample_pii_data.csv" -> <<"sample_pii_data", ".csv">>
      [] OTHER -> << >>

\* f"processed-{key}"
OutputKey(key) == <<"processed", key>>

\* event -> key, or the KeyError of record['s3']
EventKey(ev) ==
    CASE ev.kind = "s3" -> ev.key
      [] ev.kind = "manual" -> ev.key
      [] ev.kind = "manual_nokey" -> DEFAULT_KEY
      [] OTHER -> NoKey

Has(item, attr) == attr \in DOMAIN item

\* item.get(attr)
Get(item, attr) == IF Has(item, attr) THEN item[attr] ELSE "absent"

(* ---- DynamoDB ---- *)
\* table.put_item(Item=item): creates the item or replaces the whole item
PutItem(item) == (item.jobId :> item) @@ table

\* table.update_item(Key, SET ...): sets the given attributes of the item,
\* keeps the others; creates the item when the key is new
UpdateItem(jobId, sets) ==
    LET old == IF jobId \in DOMAIN table THEN table[jobId] ELSE [jobId |-> jobId]
    IN  (jobId :> (sets @@ old)) @@ table

\* a scan without its filter
Scan_All(status) == {table[j] : j \in DOMAIN table}

\* table.scan(FilterExpression='#status = :status')
Scan(status) ==
    {table[j] : j \in {k \in DOMAIN table : Get(table[k], "status") = status}}

(* ---- items written by the submitter ---- *)
\* a submitter that leaves the jobArn out of the item
AsyncItem_NoArn(s) ==
    [jobId |-> s.job_id,
     status |-> "InProgress",
     sourceFile |-> s.key,
     inputBucket |-> INPUT_BUCKET,
     outputBucket |-> OUTPUT_BUCKET,
     outputKey |-> OutputKey(s.key),
     createdAt |-> s.now,
     ttl |-> s.now + TTL_SECONDS]

AsyncItem(s) ==
    [jobId |-> s.job_id,
     jobArn |-> s.job_arn,
     status |-> "InProgress",
     sourceFile |-> s.key,
     inputBucket |-> INPUT_BUCKET,
     outputBucket |-> OUTPUT_BUCKET,
     outputKey |-> OutputKey(s.key),
     createdAt |-> s.now,
     ttl |-> s.now + TTL_SECONDS]

\* a submitter that creates the fallback's item InProgress
DirectItem_InProgress(s) ==
    [jobId |-> s.job_id,
     status |-> "InProgress",
     sourceFile |-> s.key,
     inputBucket |-> INPUT_BUCKET,
     outputBucket |-> OUTPUT_BUCKET,
     outputKey |-> OutputKey(s.key),
     createdAt |-> s.now,
     method |-> "direct_processing",
     ttl |-> s.now + TTL_SECONDS]

DirectItem(s) ==
    [jobId |-> s.job_id,
     status |-> "Completed",
     sourceFile |-> s.key,
     inputBucket |-> INPUT_BUCKET,
     outputBucket |-> OUTPUT_BUCKET,
     outputKey |-> OutputKey(s.key),
     createdAt |-> s.now,
     completedAt |-> s.now,
     method |-> "direct_processing",
     ttl |-> s.now + TTL_SECONDS]

(* ---- initial state ---- *)
\* no invocation of the realtime handler, no text under redaction
RtInit == [pc |-> "idle"]

RxInit == [pc |-> 0]

\* locals of processor.handler; now is the datetime.now() of the item that
\* the next put_item writes
SubInit ==
    [pc |-> "idle", key |-> NoKey, job_id |-> NoJobId, job_arn |-> NoArn,
     bedrock_error |-> NoError, now |-> 0, resp |-> NoResp]

\* locals of monitor.handler; errors counts the logger.error calls of line 80
MonInit ==
    [pc |-> "idle", items |-> {}, item |-> NoItem,
     expression_values |-> << >>,
     jobs_checked |-> 0, jobs_updated |-> 0, errors |-> 0, resp |-> NoResp]

Init ==
    /\ clock = 0
    /\ table = << >>
    /\ jobs = << >>
    /\ objects = {}
    /\ sub = [p \in Subs |-> SubInit]
    /\ mon = [m \in Mons |-> MonInit]
    /\ rt = RtInit
    /\ rx = RxInit

(* ---- environment ---- *)
Tick ==
    /\ clock < MaxClock
    /\ clock' = clock + 1
    /\ UNCHANGED <<rt, rx, table, jobs, objects, sub, mon>>

\* what a running backend job can end as
JobOutcomes ==
    {[status |-> "Completed"],
     [status |-> "Stopped"],
     [status |-> "Failed"],
     [status |-> "Failed", failureMessage |-> "quota exceeded"]}

\* the backend finishes a job; a finished job stays as it is
BackendFinish(arn) ==
    /\ arn \in DOMAIN jobs
    /\ jobs[arn].status = "InProgress"
    /\ \E out \in JobOutcomes : jobs' = (arn :> out) @@ jobs
    /\ UNCHANGED <<rt, rx, clock, table, objects, sub, mon>>


(* ---- processor.handler ---- *)
\* def handler(event, context): invocation p is the p-th one to start
SubInvoked(p) ==
    /\ sub[p].pc = "idle"
    /\ \A q \in Subs : q < p => sub[q].pc # "idle"

\* the handler returns: its locals are gone, the response remains
SubReturn(r) == [SubInit EXCEPT !.pc = "done", !.resp = r]

\* lines 15-41, 179-184: reading the event raises, outer except
SubHandlerError(p) ==
    /\ SubInvoked(p)
    /\ \E ev \in Events :
        /\ EventKey(ev) = NoKey
        /\ sub' = [sub EXCEPT ![p] = SubReturn([statusCode |-> 500,
                                                error |-> "handler_error"])]
    /\ UNCHANGED <<rt, rx, clock, table, jobs, objects, mon>>

\* response['jobArn'] of a new batch job
NewArn == <<"arn", Cardinality(DOMAIN jobs) + 1>>

\* lines 15-87: the event is read, the job id made,
\* create_model_invocation_job returns a jobArn
SubCreateJobOk(p) ==
    /\ SubInvoked(p)
    /\ \E ev \in Events :
        /\ EventKey(ev) # NoKey
        /\ sub' = [sub EXCEPT ![p].pc = "put_async",
                              ![p].key = EventKey(ev),
                              ![p].job_id = JobIdAt(clock),
                              ![p].job_arn = NewArn,
                              ![p].now = clock]
    /\ jobs' = (NewArn :> [status |-> "InProgress"]) @@ jobs
    /\ UNCHANGED <<rt, rx, clock, table, objects, mon>>

\* a submitter that persists an InProgress record before it runs the fallback
SubCreateJobFail_Persists(p) ==
    /\ SubInvoked(p)
    /\ \E ev \in Events :
        /\ EventKey(ev) # NoKey
        /\ sub' = [sub EXCEPT ![p].pc = "fallback",
                              ![p].key = EventKey(ev),
                              ![p].job_id = JobIdAt(clock),
                              ![p].bedrock_error = "create_job_failed"]
        /\ table' = PutItem([jobId |-> JobIdAt(clock),
                             status |-> "InProgress",
                             sourceFile |-> EventKey(ev),
                             createdAt |-> clock,
                             method |-> "direct_processing"])
    /\ UNCHANGED <<rt, rx, clock, jobs, objects, mon>>

\* lines 15-84, 111-112: create_model_invocation_job raises
SubCreateJobFail(p) ==
    /\ SubInvoked(p)
    /\ \E ev \in Events :
        /\ EventKey(ev) # NoKey
        /\ sub' = [sub EXCEPT ![p].pc = "fallback",
                              ![p].key = EventKey(ev),
                              ![p].job_id = JobIdAt(clock),
                              ![p].bedrock_error = "create_job_failed"]
    /\ UNCHANGED <<rt, rx, clock, table, jobs, objects, mon>>

\* lines 90-109: put_item succeeds, return 200
SubPutAsyncOk(p) ==
    /\ sub[p].pc = "put_async"
    /\ table' = PutItem(AsyncItem(sub[p]))
    /\ sub' = [sub EXCEPT ![p] = SubReturn([statusCode |-> 200,
                                            jobId |-> sub[p].job_id,
                                            jobArn |-> sub[p].job_arn])]
    /\ UNCHANGED <<rt, rx, clock, jobs, objects, mon>>

\* lines 90-102, 111-112: put_item raises inside the try of the batch job,
\* the same except clause takes it
SubPutAsyncFail(p) ==
    /\ sub[p].pc = "put_async"
    /\ sub' = [sub EXCEPT ![p].pc = "fallback",
                          ![p].bedrock_error = "put_item_failed"]
    /\ UNCHANGED <<rt, rx, clock, table, jobs, objects, mon>>

\* lines 172-177
BothFailed == [statusCode |-> 500, error |-> "both_failed"]

\* lines 117-118, 172-177: get_object raises
SubGetObjectFail(p) ==
    /\ sub[p].pc = "fallback"
    /\ sub' = [sub EXCEPT ![p] = SubReturn(BothFailed)]
    /\ UNCHANGED <<rt, rx, clock, table, jobs, objects, mon>>

\* lines 117-146, 172-177: get_object succeeds, put_object raises
SubPutObjectFail(p) ==
    /\ sub[p].pc = "fallback"
    /\ sub' = [sub EXCEPT ![p] = SubReturn(BothFailed)]
    /\ UNCHANGED <<rt, rx, clock, table, jobs, objects, mon>>

\* a submitter that goes on to the record without writing the output object
SubPutObjectOk_NoWrite(p) ==
    /\ sub[p].pc = "fallback"
    /\ sub' = [sub EXCEPT ![p].pc = "put_direct", ![p].now = clock]
    /\ UNCHANGED <<rt, rx, clock, table, jobs, objects, mon>>

\* lines 117-161: get_object succeeds, the content is masked, put_object
\* succeeds, the item is built
SubPutObjectOk(p) ==
    /\ sub[p].pc = "fallback"
    /\ objects' = objects \cup {OutputKey(sub[p].key)}
    /\ sub' = [sub EXCEPT ![p].pc = "put_direct", ![p].now = clock]
    /\ UNCHANGED <<rt, rx, clock, table, jobs, mon>>

\* lines 149-170: put_item succeeds, return 200
SubPutDirectOk(p) ==
    /\ sub[p].pc = "put_direct"
    /\ table' = PutItem(DirectItem(sub[p]))
    /\ sub' = [sub EXCEPT ![p] = SubReturn([statusCode |-> 200,
                                            jobId |-> sub[p].job_id,
                                            method |-> "direct_processing",
                                            outputFile |-> OutputKey(sub[p].key)])]
    /\ UNCHANGED <<rt, rx, clock, jobs, objects, mon>>

\* a submitter that swallows the exception of the fallback's put_item
SubPutDirectFail_Returns200(p) ==
    /\ sub[p].pc = "put_direct"
    /\ sub' = [sub EXCEPT ![p] = SubReturn([statusCode |-> 200,
                                            jobId |-> sub[p].job_id,
                                            method |-> "direct_processing",
                                            outputFile |-> OutputKey(sub[p].key)])]
    /\ UNCHANGED <<rt, rx, clock, table, jobs, objects, mon>>

\* lines 149-162, 172-177: put_item raises
SubPutDirectFail(p) ==
    /\ sub[p].pc = "put_direct"
    /\ sub' = [sub EXCEPT ![p] = SubReturn(BothFailed)]
    /\ UNCHANGED <<rt, rx, clock, table, jobs, objects, mon>>

(* ---- monitor.handler ---- *)
\* def handler(event, context): invocation m is the m-th one to start
MonInvoked(m) ==
    /\ mon[m].pc = "idle"
    /\ \A n \in Mons : n < m => mon[n].pc # "idle"

MonReturn(r) == [MonInit EXCEPT !.pc = "done", !.resp = r]

\* lines 29-36: the scan returns the in-progress items
MonScanOk(m) ==
    /\ MonInvoked(m)
    /\ mon' = [mon EXCEPT ![m].pc = "loop", ![m].items = Scan("InProgress")]
    /\ UNCHANGED <<rt, rx, clock, table, jobs, objects, sub>>

\* lines 29-33, 90-95: the scan raises, outer except
MonScanFail(m) ==
    /\ MonInvoked(m)
    /\ mon' = [mon EXCEPT ![m] = MonReturn([statusCode |-> 500,
                                            error |-> "monitor_error"])]
    /\ UNCHANGED <<rt, rx, clock, table, jobs, objects, sub>>

\* a filter that looks at the jobArn only
Skipped_ArnOnly(item) == ~Has(item, "jobArn")

\* line 42
Skipped(item) ==
    \/ ~Has(item, "jobArn")
    \/ Get(item, "method") = "direct_processing"

ExpressionValues_NoCompletedAt(job_response) ==
    [status |-> job_response.status]

ExpressionValues_NoDefault(job_response) ==
    IF Has(job_response, "failureMessage")
    THEN [status |-> job_response.status,
          completedAt |-> clock,
          failureReason |-> job_response.failureMessage]
    ELSE [status |-> job_response.status,
          completedAt |-> clock]

\* lines 58-67
ExpressionValues(job_response) ==
    IF job_response.status = "Failed"
    THEN [status |-> job_response.status,
          completedAt |-> clock,
          failureReason |-> IF Has(job_response, "failureMessage")
                            THEN job_response.failureMessage
                            ELSE "Unknown failure"]
    ELSE [status |-> job_response.status,
          completedAt |-> clock]

\* lines 38-56, 79-81: the next item of the scan; it is skipped, or counted
\* and get_model_invocation_job raises, or reports a job that still runs, or
\* reports a finished job
MonCheck(m) ==
    /\ mon[m].pc = "loop"
    /\ \E item \in mon[m].items :
        LET rest == mon[m].items \ {item}
            checked == mon[m].jobs_checked + 1
        IN  IF Skipped(item)
            THEN mon' = [mon EXCEPT ![m].items = rest]
            ELSE \/ mon' = [mon EXCEPT ![m].items = rest,
                                       ![m].jobs_checked = checked,
                                       ![m].errors = mon[m].errors + 1]
                 \/ /\ jobs[item.jobArn].status \notin TerminalStatuses
                    /\ mon' = [mon EXCEPT ![m].items = rest,
                                          ![m].jobs_checked = checked]
                 \/ /\ jobs[item.jobArn].status \in TerminalStatuses
                    /\ mon' = [mon EXCEPT
                                 ![m].pc = "update",
                                 ![m].items = rest,
                                 ![m].item = item,
                                 ![m].jobs_checked = checked,
                                 ![m].expression_values =
                                     ExpressionValues(jobs[item.jobArn])]
    /\ UNCHANGED <<rt, rx, clock, table, jobs, objects, sub>>

\* lines 69-77: update_item succeeds
MonUpdateOk(m) ==
    /\ mon[m].pc = "update"
    /\ table' = UpdateItem(mon[m].item.jobId, mon[m].expression_values)
    /\ mon' = [mon EXCEPT ![m].pc = "loop",
                          ![m].item = NoItem,
                          ![m].expression_values = << >>,
                          ![m].jobs_updated = mon[m].jobs_updated + 1]
    /\ UNCHANGED <<rt, rx, clock, jobs, objects, sub>>

MonUpdateFail_Aborts(m) ==
    /\ mon[m].pc = "update"
    /\ mon' = [mon EXCEPT ![m] = MonReturn([statusCode |-> 500,
                                            error |-> "monitor_error"])]
    /\ UNCHANGED <<rt, rx, clock, table, jobs, objects, sub>>

\* lines 69-74, 79-81: update_item raises
MonUpdateFail(m) ==
    /\ mon[m].pc = "update"
    /\ mon' = [mon EXCEPT ![m].pc = "loop",
                          ![m].item = NoItem,
                          ![m].expression_values = << >>,
                          ![m].errors = mon[m].errors + 1]
    /\ UNCHANGED <<rt, rx, clock, table, jobs, objects, sub>>

\* lines 83-88
MonDone(m) ==
    /\ mon[m].pc = "loop"
    /\ mon[m].items = {}
    /\ mon' = [mon EXCEPT ![m] = MonReturn([statusCode |-> 200,
                                            jobsChecked |-> mon[m].jobs_checked,
                                            jobsUpdated |-> mon[m].jobs_updated])]
    /\ UNCHANGED <<rt, rx, clock, table, jobs, objects, sub>>

(* ---- every interleaving of the invocations ---- *)
Next ==
    \/ Tick
    \/ \E arn \in DOMAIN jobs : BackendFinish(arn)
    \/ \E p \in Subs : SubHandlerError(p)
    \/ \E p \in Subs : SubCreateJobOk(p)
    \/ \E p \in Subs : SubCreateJobFail(p)
    \/ \E p \in Subs : SubPutAsyncOk(p)
    \/ \E p \in Subs : SubPutAsyncFail(p)
    \/ \E p \in Subs : SubGetObjectFail(p)
    \/ \E p \in Subs : SubPutObjectFail(p)
    \/ \E p \in Subs : SubPutObjectOk(p)
    \/ \E p \in Subs : SubPutDirectOk(p)
    \/ \E p \in Subs : SubPutDirectFail(p)
    \/ \E m \in Mons : MonScanOk(m)
    \/ \E m \in Mons : MonScanFail(m)
    \/ \E m \in Mons : MonCheck(m)
    \/ \E m \in Mons : MonUpdateOk(m)
    \/ \E m \in Mons : MonUpdateFail(m)
    \/ \E m \in Mons : MonDone(m)

Spec == Init /\ [][Next]_vars

(* ---- sequential runs: one submission after the other, then one pass ---- *)
(* ---- after the other                                                 ---- *)
NoPassStarted == \A m \in Mons : mon[m].pc = "idle"

NoneRunning ==
    /\ \A p \in Subs : sub[p].pc \in {"idle", "done"}
    /\ \A m \in Mons : mon[m].pc \in {"idle", "done"}

NextSeq ==
    \/ Tick
    \/ \E arn \in DOMAIN jobs : BackendFinish(arn)
    \/ \E p \in Subs : NoneRunning /\ NoPassStarted /\ SubHandlerError(p)
    \/ \E p \in Subs : NoneRunning /\ NoPassStarted /\ SubCreateJobOk(p)
    \/ \E p \in Subs : NoneRunning /\ NoPassStarted /\ SubCreateJobFail(p)
    \/ \E p \in Subs : SubPutAsyncOk(p)
    \/ \E p \in Subs : SubPutAsyncFail(p)
    \/ \E p \in Subs : SubGetObjectFail(p)
    \/ \E p \in Subs : SubPutObjectFail(p)
    \/ \E p \in Subs : SubPutObjectOk(p)
    \/ \E p \in Subs : SubPutDirectOk(p)
    \/ \E p \in Subs : SubPutDirectFail(p)
    \/ \E m \in Mons : NoneRunning /\ MonScanOk(m)
    \/ \E m \in Mons : NoneRunning /\ MonScanFail(m)
    \/ \E m \in Mons : MonCheck(m)
    \/ \E m \in Mons : MonUpdateOk(m)
    \/ \E m \in Mons : MonUpdateFail(m)
    \/ \E m \in Mons : MonDone(m)

SpecSeq == Init /\ [][NextSeq]_vars

(* ---- reconciler passes over a table filled by others ---- *)
\* The table outlives the deployments of the two handlers and is open to
\* other writers: a pass can find any record in it.  The records below are
\* the two that the submitter writes, the same after reconciliation, and
\* records that are InProgress with a method, without a jobArn, or both.
StoredLocals(n) ==
    [SubInit EXCEPT !.key = DEFAULT_KEY, !.job_id = <<"pii-job", n>>,
                    !.job_arn = <<"arn", n>>, !.now = 0]

StoredRecords(n) ==
    LET async == AsyncItem(StoredLocals(n))
        direct == DirectItem(StoredLocals(n))
        running == [direct EXCEPT !.status = "InProgress"]
    IN  {async,
         direct,
         [status |-> "Completed", completedAt |-> 0] @@ async,
         running,
         [jobArn |-> <<"arn", n>>] @@ running,
         [jobArn |-> <<"arn", n>>] @@ direct,
         [j \in DOMAIN async \ {"jobArn"} |-> async[j]]}

StoredTables ==
    UNION {[{<<"pii-job", n>> : n \in ns} -> UNION {StoredRecords(n) : n \in ns}]
              : ns \in SUBSET (1..MaxStored)}

InitStored ==
    /\ clock = 0
    /\ table \in {t \in StoredTables : \A j \in DOMAIN t : t[j].jobId = j}
    /\ jobs = [arn \in {<<"arn", n>> : n \in 1..MaxStored} |->
                  [status |-> "InProgress"]]
    /\ objects = {}
    /\ sub = [p \in Subs |-> SubInit]
    /\ mon = [m \in Mons |-> MonInit]
    /\ rt = RtInit
    /\ rx = RxInit

NextStored ==
    \/ Tick
    \/ \E arn \in DOMAIN jobs : BackendFinish(arn)
    \/ \E m \in Mons : MonScanOk(m)
    \/ \E m \in Mons : MonScanFail(m)
    \/ \E m \in Mons : MonCheck(m)
    \/ \E m \in Mons : MonUpdateOk(m)
    \/ \E m \in Mons : MonUpdateFail(m)
    \/ \E m \in Mons : MonDone(m)

SpecStored == InitStored /\ [][NextStored]_vars

(* ---- the realtime handler (Realtime/samplelambda/genai-pii-mask.py) ---- *)
\* Object keys are sequences of the pieces that the handler looks at: the
\* folder prefix, the stem and the extensions.
RtKeys ==
    {<<"Newfile/", "data", ".csv">>,
     <<"data", ".csv">>,
     <<"Newfile/", "notes", ".txt">>,
     <<"Newfile/", "data", ".csv", ".bak">>,
     <<"Newfile/", "data", ".CSV">>}

RtEvents == [kind : {"s3"}, key : RtKeys] \cup {[kind |-> "malformed"]}

\* the Comments cells of the source CSV: NaN for an empty cell
NaN == "NaN"
Cells == {NaN, "call 555-123-4567", "hello"}

\* what the model can answer
ModelTexts == {"call <PII_PHONE>", "hello", "Here is the masked text"}

\* the source CSV: its Comments column, or a file without that column
RtSources ==
    [comments : BOOLEAN,
     rows : UNION {[1..n -> Cells] : n \in 0..MaxRows}]

\* str.endswith
EndsWith(key, suffix) == Len(key) > 0 /\ key[Len(key)] = suffix

\* source_key.replace('Newfile/', 'Newoutputfile/')
TargetKey(key) ==
    [i \in DOMAIN key |-> IF key[i] = "Newfile/" THEN "Newoutputfile/" ELSE key[i]]

\* pd.notna
NotNa(cell) == cell # NaN

\* bedrock.converse and the reading of its response: an answer with a text,
\* an exception of the call, or a response without the expected entries
ConverseOutcomes ==
    [ok : {TRUE}, text : ModelTexts] \cup
    [ok : {FALSE}, cause : {"converse_raised", "bad_response"}]

\* a redaction that gives up the text when the backend fails
obfuscate_pii_Empty(text, outcome) ==
    IF outcome.ok THEN outcome.text ELSE ""

\* lines 14-61
obfuscate_pii(text, outcome) ==
    IF outcome.ok THEN outcome.text ELSE text

\* the first row from i on whose Comments cell is not NaN, or the end
RECURSIVE NextRow(_, _)
NextRow(df, i) ==
    IF i > Len(df) THEN i
    ELSE IF NotNa(df[i]) THEN i
    ELSE NextRow(df, i + 1)

\* an invocation: the event, the source object in the bucket, the locals;
\* read and written are the objects got from and put to the bucket, failed
\* the rows for which line 60 logged an error
RtStart(ev, src) ==
    [pc |-> "start", event |-> ev, source |-> src, df |-> << >>, index |-> 0,
     failed |-> {}, read |-> {}, written |-> {}, resp |-> NoResp]

RtReturn(r) == [rt EXCEPT !.pc = "done", !.resp = r]

InitRealtime ==
    /\ clock = 0
    /\ table = << >>
    /\ jobs = << >>
    /\ objects = {}
    /\ sub = [p \in Subs |-> SubInit]
    /\ mon = [m \in Mons |-> MonInit]
    /\ rt \in {RtStart(ev, src) : ev \in RtEvents, src \in RtSources}
    /\ rx = RxInit

batch == <<clock, table, jobs, objects, sub, mon>>

\* lines 68-69, 134-136: the event has no Records entry
RtEventError ==
    /\ rt.pc = "start"
    /\ rt.event.kind = "malformed"
    /\ rt' = RtReturn([statusCode |-> 500, body |-> "Unexpected error"])
    /\ UNCHANGED <<batch, rx>>

\* lines 73-75
RtInvalidFormat ==
    /\ rt.pc = "start"
    /\ rt.event.kind = "s3"
    /\ ~EndsWith(rt.event.key, ".csv")
    /\ rt' = RtReturn([statusCode |-> 400, body |-> "Invalid file format"])
    /\ UNCHANGED <<batch, rx>>

\* lines 79-86: get_object of the configuration raises
RtConfigFail ==
    /\ rt.pc = "start"
    /\ rt.event.kind = "s3"
    /\ EndsWith(rt.event.key, ".csv")
    /\ rt' = RtReturn([statusCode |-> 500, body |-> "Error reading PII configuration"])
    /\ UNCHANGED <<batch, rx>>

\* lines 79-83
RtConfigOk ==
    /\ rt.pc = "start"
    /\ rt.event.kind = "s3"
    /\ EndsWith(rt.event.key, ".csv")
    /\ rt' = [rt EXCEPT !.pc = "read_csv",
                        !.read = {<<"config/", "pii_types", ".txt">>}]
    /\ UNCHANGED <<batch, rx>>

\* lines 90-96: get_object of the source raises
RtReadFail ==
    /\ rt.pc = "read_csv"
    /\ rt' = RtReturn([statusCode |-> 500, body |-> "Error reading source CSV"])
    /\ UNCHANGED <<batch, rx>>

\* lines 90-106: the CSV is read; row['Comments'] raises KeyError in the
\* first row of a file without that column, else the loop runs up to the
\* first call of obfuscate_pii
RtReadOk ==
    /\ rt.pc = "read_csv"
    /\ LET got == rt.read \cup {rt.event.key}
           df == rt.source.rows
       IN  IF ~rt.source.comments /\ Len(df) > 0
           THEN rt' = [RtReturn([statusCode |-> 500, body |-> "Unexpected error"])
                          EXCEPT !.read = got, !.df = df]
           ELSE rt' = [rt EXCEPT !.pc = IF NextRow(df, 1) > Len(df)
                                        THEN "save" ELSE "rows",
                                 !.read = got,
                                 !.df = df,
                                 !.index = NextRow(df, 1)]
    /\ UNCHANGED <<batch, rx>>

\* lines 103-107: obfuscate_pii for the row at index, then the loop runs up
\* to the next call
RtRow ==
    /\ rt.pc = "rows"
    /\ \E outcome \in ConverseOutcomes :
        LET i == rt.index
            df == [rt.df EXCEPT ![i] = obfuscate_pii(rt.df[i], outcome)]
        IN  rt' = [rt EXCEPT !.pc = IF NextRow(df, i + 1) > Len(df)
                                     THEN "save" ELSE "rows",
                              !.df = df,
                              !.index = NextRow(df, i + 1),
                              !.failed = IF outcome.ok THEN rt.failed
                                         ELSE rt.failed \cup {i}]
    /\ UNCHANGED <<batch, rx>>

\* lines 113-132
RtSaveOk ==
    /\ rt.pc = "save"
    /\ rt' = [RtReturn([statusCode |-> 200,
                        message |-> "Processing complete",
                        input_file |-> rt.event.key,
                        output_file |-> TargetKey(rt.event.key),
                        rows_processed |-> Len(rt.df)])
                 EXCEPT !.written = {[key |-> TargetKey(rt.event.key),
                                      body |-> rt.df]}]
    /\ UNCHANGED <<batch, rx>>

\* lines 113-121: put_object raises
RtSaveFail ==
    /\ rt.pc = "save"
    /\ rt' = RtReturn([statusCode |-> 500, body |-> "Error saving processed file"])
    /\ UNCHANGED <<batch, rx>>

NextRealtime ==
    \/ RtEventError
    \/ RtInvalidFormat
    \/ RtConfigFail
    \/ RtConfigOk
    \/ RtReadFail
    \/ RtReadOk
    \/ RtRow
    \/ RtSaveOk
    \/ RtSaveFail

SpecRealtime == InitRealtime /\ [][NextRealtime]_vars

(* ---- the fallback redaction (batch/src/processor.py lines 122-138) ---- *)
\* A text is a sequence of characters.
Digit == {"0", "1", "2", "3", "4", "5", "6", "7", "8", "9"}
Lower == {"a", "b", "c", "d", "e", "f", "g", "h", "i", "j", "k", "l", "m",
          "n", "o", "p", "q", "r", "s", "t", "u", "v", "w", "x", "y", "z"}
Upper == {"A", "B", "C", "D", "E", "F", "G", "H", "I", "J", "K", "L", "M",
          "N", "O", "P", "Q", "R", "S", "T", "U", "V", "W", "X", "Y", "Z"}
Word == Lower \cup Upper \cup Digit \cup {"_"}                 \* \w
Local == Lower \cup Upper \cup Digit \cup {".", "_", "%", "+", "-"}
Domain == Lower \cup Upper \cup Digit \cup {".", "-"}
Tld == Upper \cup Lower \cup {"|"}                             \* [A-Z|a-z]
PhoneSep == {"-", ".", " "}                                    \* [-.\s]
CardSep == {"-", " "}                                          \* [-\s]

\* the character at position i, nothing outside the text
At(t, i) == IF i \in 1..Len(t) THEN t[i] ELSE ""

\* \b between the positions i and i + 1
Boundary(t, i) == (At(t, i) \in Word) # (At(t, i + 1) \in Word)

\* n characters of a class from position p on
Run(t, p, n, class) == \A k \in p..(p + n - 1) : At(t, k) \in class

\* x? for a class x: the position after it
Opt(t, p, class) == IF At(t, p) \in class THEN p + 1 ELSE p

\* Each pattern gives, for a start p, the last position of its match or 0.
\* In the last three patterns an optional character is never a digit and
\* what follows it is a digit, so the match at p is the only one.
\* line 132: \b\(?\d{3}\)?[-.\s]?\d{3}[-.\s]?\d{4}\b
PhoneEnd(t, p) ==
    LET p1 == Opt(t, p, {"("})
        p2 == Opt(t, p1 + 3, {")"})
        p3 == Opt(t, p2, PhoneSep)
        p4 == Opt(t, p3 + 3, PhoneSep)
    IN  IF /\ Boundary(t, p - 1)
           /\ Run(t, p1, 3, Digit)
           /\ Run(t, p3, 3, Digit)
           /\ Run(t, p4, 4, Digit)
           /\ Boundary(t, p4 + 3)
        THEN p4 + 3 ELSE 0

\* line 135: \b\d{4}[-\s]?\d{4}[-\s]?\d{4}[-\s]?\d{4}\b
CardEnd(t, p) ==
    LET p1 == Opt(t, p + 4, CardSep)
        p2 == Opt(t, p1 + 4, CardSep)
        p3 == Opt(t, p2 + 4, CardSep)
    IN  IF /\ Boundary(t, p - 1)
           /\ Run(t, p, 4, Digit)
           /\ Run(t, p1, 4, Digit)
           /\ Run(t, p2, 4, Digit)
           /\ Run(t, p3, 4, Digit)
           /\ Boundary(t, p3 + 3)
        THEN p3 + 3 ELSE 0

\* line 138: \b\d{3}-\d{2}-\d{4}\b
SsnEnd(t, p) ==
    IF /\ Boundary(t, p - 1)
       /\ Run(t, p, 3, Digit)
       /\ At(t, p + 3) = "-"
       /\ Run(t, p + 4, 2, Digit)
       /\ At(t, p + 6) = "-"
       /\ Run(t, p + 7, 4, Digit)
       /\ Boundary(t, p + 10)
    THEN p + 10 ELSE 0

Max(S) == CHOOSE x \in S : \A y \in S : y <= x

\* line 129: \b[A-Za-z0-9._%+-]+@[A-Za-z0-9.-]+\.[A-Z|a-z]{2,}\b
\* The local part runs up to the first character outside its class, which
\* has to be the @; the domain is tried longest first, and for a domain the
\* top-level part longest first.
EmailEnd(t, p) ==
    LET at == CHOOSE a \in p..(Len(t) + 1) :
                  /\ At(t, a) \notin Local
                  /\ \A k \in p..(a - 1) : At(t, k) \in Local
        ends(d) == {e \in (d + 3)..Len(t) :
                      /\ \A k \in (d + 2)..e : At(t, k) \in Tld
                      /\ Boundary(t, e)}
        doms == {d \in (at + 1)..Len(t) :
                    /\ \A k \in (at + 1)..d : At(t, k) \in Domain
                    /\ At(t, d + 1) = "."
                    /\ ends(d) # {}}
    IN  IF /\ Boundary(t, p - 1)
           /\ at > p
           /\ At(t, at) = "@"
           /\ doms # {}
        THEN Max(ends(Max(doms))) ELSE 0

Patterns == <<"email", "phone", "card", "ssn">>

MatchEnd(pat, t, p) ==
    CASE pat = "email" -> EmailEnd(t, p)
      [] pat = "phone" -> PhoneEnd(t, p)
      [] pat = "card" -> CardEnd(t, p)
      [] pat = "ssn" -> SsnEnd(t, p)

\* a redaction that masks a card number with digits
Tag_Digits(pat) ==
    CASE pat = "email" -> <<"<", "P", "I", "I", "_", "E", "M", "A", "I", "L", ">">>
      [] pat = "phone" -> <<"<", "P", "I", "I", "_", "P", "H", "O", "N", "E", ">">>
      [] pat = "card" -> <<"0", "0", "0", "0", "0", "0", "0", "0", "0", "0">>
      [] pat = "ssn" -> <<"<", "P", "I", "I", "_", "S", "S", "N", ">">>

\* '<PII_EMAIL>', '<PII_PHONE>', '<PII_CREDIT_CARD>', '<PII_SSN>'
Tag(pat) ==
    CASE pat = "email" -> <<"<", "P", "I", "I", "_", "E", "M", "A", "I", "L", ">">>
      [] pat = "phone" -> <<"<", "P", "I", "I", "_", "P", "H", "O", "N", "E", ">">>
      [] pat = "card" -> <<"<", "P", "I", "I", "_", "C", "R", "E", "D", "I", "T",
                           "_", "C", "A", "R", "D", ">">>
      [] pat = "ssn" -> <<"<", "P", "I", "I", "_", "S", "S", "N", ">">>

\* re.sub(pattern, tag, t) from position p on: the matches are looked for in
\* t from left to right, each behind the end of the one before
RECURSIVE Sub(_, _, _)
Sub(pat, t, p) ==
    IF p > Len(t) THEN << >>
    ELSE LET e == MatchEnd(pat, t, p)
         IN  IF e # 0
             THEN Tag(pat) \o Sub(pat, t, e + 1)
             ELSE <<t[p]>> \o Sub(pat, t, p + 1)

\* The texts: up to MaxChunks pieces of the claim's alphabet in a row, the
\* pieces being the digit groups, letters and marks that the four patterns
\* are made of.
Chunks ==
    {<<"5", "5", "5">>, <<"4", "1", "1", "1">>, <<"-", "1", "2", "-">>,
     <<"7">>, <<"a">>, <<".", "c", "o">>, <<"@">>, <<".">>, <<"-">>, <<" ">>,
     <<"(">>, <<")">>}

RECURSIVE Concat(_)
Concat(cs) == IF cs = << >> THEN << >> ELSE Head(cs) \o Concat(Tail(cs))

Texts == {Concat(cs) : cs \in UNION {[1..n -> Chunks] : n \in 0..MaxChunks}}

\* the text at line 125, the substitution that is next, the application that
\* is running, and the result of the first application
RxStart(t) == [pc |-> 1, pass |-> 1, csv_content |-> t, processed_content |-> t,
               once |-> << >>]

InitRedact ==
    /\ clock = 0
    /\ table = << >>
    /\ jobs = << >>
    /\ objects = {}
    /\ sub = [p \in Subs |-> SubInit]
    /\ mon = [m \in Mons |-> MonInit]
    /\ rt = RtInit
    /\ rx \in {RxStart(t) : t \in Texts}

\* lines 129-138: the four substitutions in their order
Redact(t) == Sub("ssn", Sub("card", Sub("phone", Sub("email", t, 1), 1), 1), 1)

\* one re.sub; after the fourth the result is redacted once more
Substituted(n) ==
    LET out == Sub(Patterns[n], rx.processed_content, 1)
    IN  [rx EXCEPT
           !.pc = IF n < 4 THEN n + 1 ELSE IF rx.pass = 1 THEN 1 ELSE 5,
           !.pass = IF n = 4 /\ rx.pass = 1 THEN 2 ELSE rx.pass,
           !.processed_content = out,
           !.once = IF n = 4 /\ rx.pass = 1 THEN out ELSE rx.once]

\* line 129
SubstituteEmail ==
    /\ rx.pc = 1
    /\ rx' = Substituted(1)
    /\ UNCHANGED <<batch, rt>>

\* line 132
SubstitutePhone ==
    /\ rx.pc = 2
    /\ rx' = Substituted(2)
    /\ UNCHANGED <<batch, rt>>

\* line 135
SubstituteCard ==
    /\ rx.pc = 3
    /\ rx' = Substituted(3)
    /\ UNCHANGED <<batch, rt>>

\* line 138
SubstituteSsn ==
    /\ rx.pc = 4
    /\ rx' = Substituted(4)
    /\ UNCHANGED <<batch, rt>>

NextRedact ==
    \/ SubstituteEmail
    \/ SubstitutePhone
    \/ SubstituteCard
    \/ SubstituteSsn

SpecRedact == InitRedact /\ [][NextRedact]_vars

(* ---- what the claims speak of ---- *)
Terminal(item) == Get(item, "status") \in TerminalStatuses

IsDirect(item) == Get(item, "method") = "direct_processing"

\* a step of invocation p of the submitter, and the two steps of it in which
\* put_item succeeds
SubSteps(p) == sub'[p] # sub[p]

PutAsyncDone(p) ==
    sub[p].pc = "put_async" /\ sub'[p].pc = "done"

PutDirectDone(p) ==
    /\ sub[p].pc = "put_direct"
    /\ sub'[p].pc = "done"
    /\ sub'[p].resp.statusCode = 200

\* the step of pass m in which update_item succeeds
UpdateDone(m) ==
    /\ mon[m].pc = "update"
    /\ mon'[m].jobs_updated = mon[m].jobs_updated + 1

(* ---- C1 ---- *)
\* C1: a submission whose create_model_invocation_job succeeded (it holds a
\* jobArn, a backend job exists) never runs the fallback: it never reaches
\* the point where the fallback has written its output object and is about
\* to persist the direct_processing record.
C1_AsyncExcludesFallback ==
    \A p \in Subs : sub[p].job_arn # NoArn => sub[p].pc # "put_direct"

(* ---- C2 ---- *)
\* C2: in every step, the status stored under a jobId either stays as it is
\* or goes from InProgress to Completed, Failed or Stopped; a terminal
\* status is never changed.
C2_StatusMonotonic ==
    [][\A j \in DOMAIN table :
         table'[j].status # table[j].status
           => /\ table[j].status = "InProgress"
              /\ table'[j].status \in TerminalStatuses]_vars

(* ---- C3 ---- *)
\* C3: when passes overlap, an update_item of a pass on the record of the job
\* it scanned never lands on a record that is already terminal and changes
\* it: completedAt, status and failureReason are written once, by the first
\* transition.
C3_NoSecondTransition ==
    [][\A m \in Mons :
         UpdateDone(m) =>
           LET j == mon[m].item.jobId
           IN  (/\ Has(table[j], "jobArn")
                /\ table[j].jobArn = mon[m].item.jobArn
                /\ Terminal(table[j]))
                 => table'[j] = table[j]]_vars

(* ---- C4 ---- *)
\* the jobId an invocation obtained: in its locals while it runs, in its
\* response after it returned
JobIdOf(p) ==
    IF sub[p].pc # "done" THEN sub[p].job_id
    ELSE IF Has(sub[p].resp, "jobId") THEN sub[p].resp.jobId
    ELSE NoJobId

HasJobId(p) == JobIdOf(p) # NoJobId

\* C4: two distinct submitter invocations never hold the same jobId.
C4_JobIdUnique ==
    \A p, q \in Subs :
        (p # q /\ HasJobId(p) /\ HasJobId(q)) => JobIdOf(p) # JobIdOf(q)

(* ---- C5 ---- *)
\* pass n returned and reports that it updated a record
Transitioned(n) ==
    /\ mon[n].pc = "done"
    /\ Has(mon[n].resp, "jobsUpdated")
    /\ mon[n].resp.jobsUpdated >= 1

\* C5 as stated (sequential runs): once pass m-1 has returned having
\* transitioned a record, no step of pass m changes the table, and pass m
\* reports jobsUpdated = 0.
C5_SecondPassUpdatesNothing ==
    /\ [][\A m \in Mons :
            (m > 1 /\ Transitioned(m - 1) /\ mon'[m] # mon[m])
              => table' = table]_vars
    /\ [](\A m \in Mons :
             (/\ m > 1
              /\ Transitioned(m - 1)
              /\ mon[m].pc = "done"
              /\ Has(mon[m].resp, "jobsUpdated"))
               => mon[m].resp.jobsUpdated = 0)

\* the updates pass m has counted so far, or reported
Updated(m) ==
    IF mon[m].pc # "done" THEN mon[m].jobs_updated
    ELSE IF Has(mon[m].resp, "jobsUpdated") THEN mon[m].resp.jobsUpdated
    ELSE 0

RECURSIVE SumUpdated(_)
SumUpdated(S) ==
    IF S = {} THEN 0
    ELSE LET m == CHOOSE x \in S : TRUE
         IN  Updated(m) + SumUpdated(S \ {m})

Transitions ==
    Cardinality({j \in DOMAIN table :
                   Has(table[j], "jobArn") /\ Terminal(table[j])})

\* C5 as amended (sequential runs): no step of a pass changes a record that
\* is already terminal, and the updates counted by all passes together are
\* as many as the async records that are terminal, one transition each; so
\* a later pass counts none of the records an earlier pass transitioned and
\* reports jobsUpdated = 0 when none was left InProgress.
C5_OneTransitionPerRecord ==
    /\ [][\A m \in Mons :
            mon'[m] # mon[m]
              => \A j \in DOMAIN table :
                    Terminal(table[j]) => table'[j] = table[j]]_vars
    /\ [](SumUpdated(Mons) = Transitions)

\* the first pass transitioned a record, the second one returned 200 with
\* jobsUpdated = 0
C5_Witness ==
    /\ Transitioned(1)
    /\ mon[2].pc = "done"
    /\ Has(mon[2].resp, "jobsUpdated")
    /\ mon[2].resp.jobsUpdated = 0

C7_OutputBeforeRecord ==
    /\ [](\A j \in DOMAIN table :
             IsDirect(table[j]) => table[j].outputKey \in objects)
    /\ [][\A p \in Subs :
            PutDirectDone(p) =>
              LET item == table'[sub[p].job_id]
              IN  /\ OutputKey(sub[p].key) \in objects
                  /\ item.outputKey = OutputKey(sub[p].key)
                  /\ IsDirect(item)
                  /\ item.status = "Completed"
                  /\ Has(item, "completedAt")]_vars

\* no backend job was ever created, a submission returned 200 from the
\* fallback, its record and its output object are stored
C7_Witness ==
    /\ jobs = << >>
    /\ \E p \in Subs :
        /\ sub[p].pc = "done"
        /\ Get(sub[p].resp, "method") = "direct_processing"
        /\ IsDirect(table[sub[p].resp.jobId])
        /\ sub[p].resp.outputFile \in objects

(* ---- C8 ---- *)
\* C8: every record with method direct_processing has no jobArn and has a
\* terminal status.
C8_DirectIsTerminal ==
    \A j \in DOMAIN table :
        IsDirect(table[j]) => ~Has(table[j], "jobArn") /\ Terminal(table[j])

\* a direct_processing record that a reconciler pass has written to
C8_Witness ==
    \E j \in DOMAIN table :
        IsDirect(table[j]) /\ table[j].status = "Stopped"

(* ---- C9 ---- *)
\* C9: a submission whose create_model_invocation_job raised changes the
\* table in no step but the successful put_item of the fallback; the step in
\* which its fallback fails returns 500 without jobId and leaves the table
\* as it is.
C9_DualFailureWritesNothing ==
    [][\A p \in Subs :
         (/\ SubSteps(p)
          /\ \/ sub'[p].bedrock_error = "create_job_failed"
             \/ /\ sub[p].bedrock_error = "create_job_failed"
                /\ sub'[p].resp.statusCode = 500)
           => /\ table' = table
              /\ ~Has(sub'[p].resp, "jobId")
              /\ (sub'[p].pc = "done" => sub'[p].resp.statusCode = 500)]_vars

\* no backend job and no record exist, the fallback wrote its output object
\* and then returned 500
C9_Witness ==
    /\ jobs = << >>
    /\ table = << >>
    /\ objects # {}
    /\ \E p \in Subs : sub[p].pc = "done" /\ sub[p].resp = BothFailed

(* ---- C10 ---- *)
Responded(p) == sub[p].pc = "done"

OkResponse(r) ==
    r.statusCode = 200 /\ Has(r, "jobId") /\ r.jobId \in DOMAIN table

\* C10 as stated: a returned submission has 200 with the jobId of a stored
\* record, or 500 without jobId, and 500 only when both paths failed.
C10_OnlyDualFailure ==
    \A p \in Subs :
        Responded(p) =>
          \/ OkResponse(sub[p].resp)
          \/ /\ sub[p].resp.statusCode = 500
             /\ ~Has(sub[p].resp, "jobId")
             /\ sub[p].resp.error = "both_failed"

\* C10 as amended: a returned submission has 200 with the jobId of a stored
\* record, or 500 without jobId; 200 is returned by the step whose put_item
\* stored the record of its source file; 500 is returned either by a failing step of the fallback after
\* the async path failed, or by the handler raising on its event before it
\* attempted either path, and neither changes the table.
C10_Responses ==
    /\ [](\A p \in Subs :
             Responded(p) =>
               \/ OkResponse(sub[p].resp)
               \/ /\ sub[p].resp.statusCode = 500
                  /\ ~Has(sub[p].resp, "jobId")
                  /\ sub[p].resp.error \in {"both_failed", "handler_error"})
    /\ [][\A p \in Subs :
            (~Responded(p) /\ sub'[p].pc = "done") =>
              LET r == sub'[p].resp
              IN  \/ /\ r.statusCode = 200
                     /\ sub[p].pc \in {"put_async", "put_direct"}
                     /\ r.jobId = sub[p].job_id
                     /\ r.jobId \in DOMAIN table'
                     /\ table'[r.jobId].sourceFile = sub[p].key
                  \/ /\ r.statusCode = 500
                     /\ r.error = "both_failed"
                     /\ sub[p].pc \in {"fallback", "put_direct"}
                     /\ sub[p].bedrock_error # NoError
                     /\ table' = table
                  \/ /\ r.statusCode = 500
                     /\ r.error = "handler_error"
                     /\ sub[p].pc = "idle"
                     /\ UNCHANGED <<table, jobs, objects>>]_vars

\* one submission returned 200 with the jobId of a stored record, another
\* returned 500 for its event
C10_Witness ==
    \E p, q \in Subs :
        /\ Responded(p) /\ OkResponse(sub[p].resp)
        /\ Responded(q) /\ sub[q].resp.statusCode = 500
        /\ sub[q].resp.error = "handler_error"

\* C11: in every reachable state a record carries completedAt exactly when
\* its status is Completed, Failed or Stopped
C11_CompletedAtIffTerminal ==
    \A j \in DOMAIN table : Has(table[j], "completedAt") <=> Terminal(table[j])

\* a record that the reconciler has finished next to one that still runs
C11_Witness ==
    \E j, k \in DOMAIN table :
        /\ ~IsDirect(table[j])
        /\ Terminal(table[j])
        /\ Has(table[j], "completedAt")
        /\ table[k].status = "InProgress"
        /\ ~Has(table[k], "completedAt")

\* C12: in every reachable state a record carries failureReason only if its
\* status is Failed
C12_FailureReasonOnlyFailed ==
    \A j \in DOMAIN table :
        Has(table[j], "failureReason") => table[j].status = "Failed"

\* C13: no successfully created backend job is left without a record that
\* the reconciler can advance: once the submission that created the job has
\* returned, some record carries the job's jobArn
C13_CreatedJobHasRecord ==
    \A arn \in DOMAIN jobs :
        (\A p \in Subs : sub[p].job_arn # arn) =>
            \E j \in DOMAIN table :
                Has(table[j], "jobArn") /\ table[j].jobArn = arn

\* the item that a step of the loop of pass m takes from the scanned items
Taken(m) == CHOOSE item \in mon[m].items \ mon'[m].items : TRUE

\* a step of the loop of pass m that handles one scanned item
LoopStep(m) ==
    /\ mon[m].pc = "loop"
    /\ mon'[m].pc \in {"loop", "update"}
    /\ mon'[m] # mon[m]

\* C17: when the backend reports the terminal status s for a record's job,
\* the reconciler builds the values with completedAt = now and writes them in
\* one update: status = s, completedAt, and failureReason exactly when s is
\* Failed, taken from the backend's failureMessage or 'Unknown failure' when
\* the backend gives none; nothing else of the table changes
C17_TerminalTransition ==
    [][\A m \in Mons :
        /\ (LoopStep(m) /\ mon'[m].pc = "update") =>
               /\ jobs[Taken(m).jobArn].status \in {"Completed", "Failed", "Stopped"}
               /\ mon'[m].expression_values.status = jobs[Taken(m).jobArn].status
               /\ mon'[m].expression_values.completedAt = clock
        /\ UpdateDone(m) =>
               LET item == mon[m].item
                   j == item.jobId
                   job == jobs[item.jobArn]
                   old == table[j]
                   new == table'[j]
               IN  /\ new.status = job.status
                   /\ new.completedAt = mon[m].expression_values.completedAt
                   /\ IF job.status = "Failed"
                      THEN /\ Has(new, "failureReason")
                           /\ new.failureReason =
                                 IF Has(job, "failureMessage")
                                 THEN job.failureMessage
                                 ELSE "Unknown failure"
                      ELSE /\ Has(new, "failureReason") <=> Has(old, "failureReason")
                           /\ Get(new, "failureReason") = Get(old, "failureReason")
                   /\ DOMAIN new \ {"failureReason"} =
                          (DOMAIN old \cup {"completedAt"}) \ {"failureReason"}
                   /\ \A a \in DOMAIN old \ {"status", "completedAt", "failureReason"} :
                          new[a] = old[a]
                   /\ \A k \in DOMAIN table \ {j} : table'[k] = table[k]
                   /\ DOMAIN table' = DOMAIN table]_vars

\* a record failed without a message from the backend next to one that was
\* stopped
C17_Witness ==
    \E j, k \in DOMAIN table :
        /\ table[j].status = "Failed"
        /\ Get(table[j], "failureReason") = "Unknown failure"
        /\ Has(table[j], "completedAt")
        /\ table[k].status = "Stopped"
        /\ ~Has(table[k], "failureReason")

\* C19: a status query or an update that raises for one job leaves the table
\* as it is and the pass goes on with the remaining scanned items; the pass
\* returns only when no scanned item is left, with statusCode 200 and its two
\* counters; every queried job adds one to jobsChecked, only a successful
\* update adds one to jobsUpdated, and jobsUpdated <= jobsChecked
C19_Counters ==
    \A m \in Mons :
        /\ mon[m].jobs_updated <= mon[m].jobs_checked
        /\ mon[m].resp.statusCode = 200 =>
               mon[m].resp.jobsUpdated <= mon[m].resp.jobsChecked

C19_Steps ==
    \A m \in Mons :
        \* the query raises
        /\ (LoopStep(m) /\ mon'[m].errors = mon[m].errors + 1) =>
               /\ table' = table
               /\ mon'[m].pc = "loop"
               /\ mon'[m].items = mon[m].items \ {Taken(m)}
               /\ mon'[m].jobs_checked = mon[m].jobs_checked + 1
               /\ mon'[m].jobs_updated = mon[m].jobs_updated
        \* every query is counted
        /\ (LoopStep(m) /\ ~Skipped(Taken(m))) =>
               mon'[m].jobs_checked = mon[m].jobs_checked + 1
        \* the update raises
        /\ (mon[m].pc = "update" /\ mon'[m] # mon[m] /\ ~UpdateDone(m)) =>
               /\ table' = table
               /\ mon'[m].errors = mon[m].errors + 1
               /\ mon'[m].pc = "loop"
               /\ mon'[m].items = mon[m].items
               /\ mon'[m].jobs_checked = mon[m].jobs_checked
               /\ mon'[m].jobs_updated = mon[m].jobs_updated
        \* the update succeeds
        /\ UpdateDone(m) =>
               /\ table' = UpdateItem(mon[m].item.jobId, mon[m].expression_values)
               /\ mon'[m].jobs_checked = mon[m].jobs_checked
        \* the pass returns
        /\ (mon[m].pc \in {"loop", "update"} /\ mon'[m].pc = "done") =>
               /\ mon[m].pc = "loop"
               /\ mon[m].items = {}
               /\ mon'[m].resp = [statusCode |-> 200,
                                  jobsChecked |-> mon[m].jobs_checked,
                                  jobsUpdated |-> mon[m].jobs_updated]

C19_ErrorIsolation == []C19_Counters /\ [][C19_Steps]_vars

\* a pass about to return after one job raised and a later one was updated
C19_Witness ==
    \E m \in Mons :
        /\ mon[m].pc = "loop"
        /\ mon[m].items = {}
        /\ mon[m].errors = 1
        /\ mon[m].jobs_checked = 2
        /\ mon[m].jobs_updated = 1

\* C20: when the backend reports a job as still running, the reconciler
\* writes nothing: the table, and with it the record's status InProgress and
\* the absence of completedAt and failureReason, stays as it is, jobsUpdated
\* is not incremented and the pass goes on with the next item
C20_NonTerminalSkip ==
    [][\A m \in Mons :
        (/\ LoopStep(m)
         /\ ~Skipped(Taken(m))
         /\ jobs[Taken(m).jobArn].status = "InProgress") =>
            /\ table' = table
            /\ mon'[m].pc = "loop"
            /\ mon'[m].jobs_updated = mon[m].jobs_updated
            /\ mon'[m].jobs_checked = mon[m].jobs_checked + 1]_vars

\* a pass that queried a running job without an error and is about to
\* return: the record is InProgress without completedAt and failureReason
C20_Witness ==
    \E m \in Mons : \E j \in DOMAIN table :
        /\ mon[m].pc = "loop"
        /\ mon[m].items = {}
        /\ mon[m].errors = 0
        /\ mon[m].jobs_checked = 1
        /\ mon[m].jobs_updated = 0
        /\ DOMAIN table = {j}
        /\ table[j].status = "InProgress"
        /\ Has(table[j], "jobArn")
        /\ jobs[table[j].jobArn].status = "InProgress"
        /\ ~Has(table[j], "completedAt")
        /\ ~Has(table[j], "failureReason")

\* C18: a pass scans the records whose status is InProgress only, and of the
\* scanned records it queries the backend for, counts and updates only those
\* that have a jobArn and whose method is not direct_processing; a scanned
\* direct_processing record is dropped without a query, a count or an update
\* even when it is InProgress and carries a jobArn
Queryable(item) ==
    /\ Get(item, "status") = "InProgress"
    /\ Has(item, "jobArn")
    /\ Get(item, "method") # "direct_processing"

C14_State ==
    rt.pc # "idle" =>
        /\ \A i \in rt.failed : rt.df[i] = rt.source.rows[i]
        /\ rt.pc = "save" => rt.index = Len(rt.df) + 1
        /\ rt.resp.statusCode = 200 =>
               /\ rt.index = Len(rt.df) + 1
               /\ rt.written = {[key |-> TargetKey(rt.event.key), body |-> rt.df]}
               /\ \A w \in rt.written : \A i \in rt.failed :
                      w.body[i] = rt.source.rows[i]

C14_Steps ==
    /\ (rt.pc = "rows" /\ rt' # rt) =>
           /\ rt'.pc \in {"rows", "save"}
           /\ rt'.index > rt.index
           /\ \A k \in (rt.index + 1)..(rt'.index - 1) : ~NotNa(rt.df[k])
           /\ \A k \in DOMAIN rt.df \ {rt.index} : rt'.df[k] = rt.df[k]
           /\ rt'.failed # rt.failed => rt'.df = rt.df
    /\ (rt.pc = "save" /\ rt'.written # rt.written) =>
           rt'.resp.statusCode = 200

C14_FailOpen == []C14_State /\ [][C14_Steps]_vars

\* the handler returned 200 after the backend failed for the first row and
\* answered for the second
C14_Witness ==
    /\ rt.pc = "done"
    /\ rt.resp.statusCode = 200
    /\ rt.failed = {1}
    /\ Len(rt.df) >= 2
    /\ rt.df[1] = rt.source.rows[1]
    /\ rt.df[2] # rt.source.rows[2]
    /\ \E w \in rt.written : w.body = rt.df

\* C16: a handler that is triggered with a key that does not end in .csv
\* answers 400, starts no backend job, reads and writes no object and
\* persists no record: so in the realtime handler, and in the batch
\* submitter no invocation gets past the reading of the event with such a
\* key and no record names such a source file
C16_Realtime ==
    (rt.pc = "done" /\ rt.event.kind = "s3" /\ ~EndsWith(rt.event.key, ".csv")) =>
        /\ rt.resp = [statusCode |-> 400, body |-> "Invalid file format"]
        /\ rt.read = {}
        /\ rt.written = {}

C16_Batch ==
    /\ \A p \in Subs :
           sub[p].key # NoKey => EndsWith(KeyTokens(sub[p].key), ".csv")
    /\ \A j \in DOMAIN table :
           EndsWith(KeyTokens(table[j].sourceFile), ".csv")

C16_NonCsvRejected == C16_Realtime /\ C16_Batch

\* C15: for every text of the alphabet the four substitutions applied to
\* their own result give that result again, redact(redact(t)) = redact(t),
\* and no substitution of the second application changes the text, so the
\* tags stay as they are
C15_Fixpoint ==
    /\ (rx.pc = 1 /\ rx.pass = 2) => rx.once = Redact(rx.csv_content)
    /\ rx.pc = 5 => rx.processed_content = rx.once

C15_SecondPass ==
    (rx.pc # 0 /\ rx.pass = 2 /\ rx' # rx) =>
        rx'.processed_content = rx.processed_content

C15_Idempotent == []C15_Fixpoint /\ [][C15_SecondPass]_vars

\* a text redacted twice whose result holds a tag next to digits left over
C15_Witness ==
    /\ rx.pc = 5
    /\ rx.once # rx.csv_content
    /\ rx.processed_content = rx.once
    /\ \E i \in DOMAIN rx.once :
           /\ rx.once[i] = ">"
           /\ At(rx.once, i + 1) \in {"(", ")", "-", "."}
           /\ At(rx.once, i + 2) \in Digit

====
